---- MODULE Spec2Model ----
(***************************************************************************)
(* securepass: the credential record (PasswordEntry), the localStorage     *)
(* persistence backend (LocalStorageService) and the credential store      *)
(* (PasswordManager), modelled as a state machine.                         *)
(*                                                                         *)
(* JavaScript strings are sequences of one-character strings, so the empty *)
(* string is << >>.  The clock is the number of milliseconds since the     *)
(* epoch; it never runs backwards.                                         *)
(***************************************************************************)
EXTENDS Integers, Sequences, FiniteSets

\* ------------------------------------------------------------------ bounds
MaxTime == 1
MaxLen == 2
MaxCalls == 4
MaxPwLen == 17
LongPwLen == 90
MaxScore == 100
MaxGenLen == 3
MaxRandom == 89
MaxStride == 2
MaxUsers == 2
MaxRecords == 2

\* ----------------------------------------------------------- value domains
\* the JavaScript value undefined (also: a key that is absent from an object)
UNDEF == <<"undefined">>

Times == 0..MaxTime

\* ---------------------------------------------------- strings and the clock
Digits == <<"0", "1", "2", "3", "4", "5", "6", "7", "8", "9">>

DigitVal(c) == CHOOSE n \in 0..9 : Digits[n + 1] = c

\* Number.prototype.toString(): the decimal digits, no padding
RECURSIVE NumToString(_)
NumToString(n) ==
  IF n < 10 THEN <<Digits[n + 1]>>
  ELSE NumToString(n \div 10) \o <<Digits[(n % 10) + 1]>>

\* Date.prototype.toISOString() is "YYYY-MM-DDTHH:mm:ss.sssZ"; for the clock
\* values of the model only the seconds and milliseconds digits vary, and
\* these four digits are what is kept: "s.sss".
ToISOString(t) ==
  << Digits[((t \div 1000) % 10) + 1], Digits[((t \div 100) % 10) + 1],
     Digits[((t \div 10) % 10) + 1], Digits[(t % 10) + 1] >>

\* chronological order of two ISO timestamps: the order of the strings
IsoLeq(a, b) ==
  \/ a = b
  \/ \E i \in 1..Len(a) :
       /\ i <= Len(b)
       /\ \A j \in 1..(i - 1) : a[j] = b[j]
       /\ DigitVal(a[i]) < DigitVal(b[i])

\* a JavaScript string used as a condition: undefined and "" are falsy
Truthy(s) == s # UNDEF /\ s # << >>

\* property read data.k of a plain object: undefined when the key is absent
Get(data, k) == IF k \in DOMAIN data THEN data[k] ELSE UNDEF

\* ------------------------------------------------------------ PasswordEntry
\* new PasswordEntry(website, username, password, notes, id); tId, tC and tU
\* are the clock readings of Date.now() and of the two new Date() calls
NewPasswordEntry(website, username, password, notes, id, tId, tC, tU) ==
  [ id |-> IF Truthy(id) THEN id ELSE NumToString(tId),
    website |-> website,
    username |-> username,
    password |-> password,
    notes |-> notes,
    createdAt |-> ToISOString(tC),
    updatedAt |-> ToISOString(tU) ]

\* a mutant of Defined: the test is if (data.website), true of
\* non-empty strings only
DefinedAndNonEmpty(v) == v # UNDEF /\ v # << >>

\* v !== undefined
Defined(v) == v # UNDEF

\* a mutant of EntryUpdate: an absent key wipes the field
EntryUpdateNoUndefinedCheck(e, data, t) ==
  [ e EXCEPT !.website = Get(data, "website"),
             !.username = Get(data, "username"),
             !.password = Get(data, "password"),
             !.notes = Get(data, "notes"),
             !.updatedAt = ToISOString(t) ]

\* PasswordEntry.update(data) at clock reading t
EntryUpdate(e, data, t) ==
  [ e EXCEPT !.website = IF Defined(Get(data, "website"))
                           THEN Get(data, "website") ELSE @,
             !.username = IF Defined(Get(data, "username"))
                            THEN Get(data, "username") ELSE @,
             !.password = IF Defined(Get(data, "password"))
                            THEN Get(data, "password") ELSE @,
             !.notes = IF Defined(Get(data, "notes"))
                         THEN Get(data, "notes") ELSE @,
             !.updatedAt = ToISOString(t) ]

\* PasswordEntry.toJSON()
ToJSON(e) ==
  [ id |-> e.id,
    website |-> e.website,
    username |-> e.username,
    password |-> e.password,
    notes |-> e.notes,
    createdAt |-> e.createdAt,
    updatedAt |-> e.updatedAt ]

\* PasswordEntry.fromJSON(data); the constructor reads the clock at tC and tU
FromJSON(data, tC, tU) ==
  [ NewPasswordEntry(Get(data, "website"), Get(data, "username"),
                     Get(data, "password"), Get(data, "notes"),
                     Get(data, "id"), tC, tC, tU)
    EXCEPT !.updatedAt = Get(data, "updatedAt") ]

\* ----------------------------------------------------------------- JSON
\* JSON.stringify(array of plain objects) followed by JSON.parse: a key whose
\* value is undefined is left out of the text
JSONStringify(objs) ==
  [ i \in 1..Len(objs) |->
      [ k \in { key \in DOMAIN objs[i] : objs[i][key] # UNDEF } |-> objs[i][k] ] ]

\* ----------------------------------------------------- LocalStorageService
\* the item under 'secure_pass_passwords': none, a JSON array, or a text
\* that JSON.parse rejects
NoItem == [kind |-> "none", data |-> << >>]
Corrupt == [kind |-> "corrupt", data |-> << >>]
JSONItem(text) == [kind |-> "json", data |-> text]

\* a mutant of SavePasswords: no try/catch around setItem
SavePasswordsNoCatch(stor, pwds, ok) ==
  IF ok
    THEN [ storage |-> JSONItem(JSONStringify([i \in 1..Len(pwds) |-> ToJSON(pwds[i])])),
           threw |-> FALSE, logged |-> FALSE ]
    ELSE [ storage |-> stor, threw |-> TRUE, logged |-> FALSE ]

\* LocalStorageService.savePasswords(passwords); ok is whether setItem works
SavePasswords(stor, pwds, ok) ==
  IF ok
    THEN [ storage |-> JSONItem(JSONStringify([i \in 1..Len(pwds) |-> ToJSON(pwds[i])])),
           threw |-> FALSE, logged |-> FALSE ]
    ELSE [ storage |-> stor, threw |-> FALSE, logged |-> TRUE ]

\* a mutant of GetPasswords: no try/catch around getItem and JSON.parse
GetPasswordsNoCatch(stor, ok, ts) ==
  IF ~ok \/ stor.kind = "corrupt"
    THEN [ ret |-> << >>, threw |-> TRUE, logged |-> FALSE ]
  ELSE IF stor.kind = "none"
    THEN [ ret |-> << >>, threw |-> FALSE, logged |-> FALSE ]
  ELSE [ ret |-> [ i \in 1..Len(stor.data) |-> FromJSON(stor.data[i], ts[i], ts[i]) ],
         threw |-> FALSE, logged |-> FALSE ]

\* LocalStorageService.getPasswords(); ok is whether getItem works, ts[i] the
\* clock reading while item i is reconstructed
GetPasswords(stor, ok, ts) ==
  IF ~ok \/ stor.kind = "corrupt"
    THEN [ ret |-> << >>, threw |-> FALSE, logged |-> TRUE ]
  ELSE IF stor.kind = "none"
    THEN [ ret |-> << >>, threw |-> FALSE, logged |-> FALSE ]
  ELSE [ ret |-> [ i \in 1..Len(stor.data) |-> FromJSON(stor.data[i], ts[i], ts[i]) ],
         threw |-> FALSE, logged |-> FALSE ]

\* LocalStorageService.clearPasswords(); ok is whether removeItem works
ClearPasswords(stor, ok) ==
  IF ok
    THEN [ storage |-> NoItem, threw |-> FALSE, logged |-> FALSE ]
    ELSE [ storage |-> stor, threw |-> FALSE, logged |-> TRUE ]

\* ------------------------------------------------------ String.prototype
LowercaseChars ==
  << "a", "b", "c", "d", "e", "f", "g", "h", "i", "j", "k", "l", "m",
     "n", "o", "p", "q", "r", "s", "t", "u", "v", "w", "x", "y", "z" >>

UppercaseChars ==
  << "A", "B", "C", "D", "E", "F", "G", "H", "I", "J", "K", "L", "M",
     "N", "O", "P", "Q", "R", "S", "T", "U", "V", "W", "X", "Y", "Z" >>

\* the characters String.prototype.trim() removes (those the model uses)
WhiteSpace == {" ", "\t", "\n"}

\* the elements of a sequence
Range(s) == { s[i] : i \in 1..Len(s) }

\* String.prototype.toLowerCase(), one character
LowerOf(c) ==
  IF c \in Range(UppercaseChars)
    THEN LowercaseChars[CHOOSE k \in 1..26 : UppercaseChars[k] = c]
    ELSE c

\* String.prototype.toLowerCase()
ToLowerCase(s) == [ i \in 1..Len(s) |-> LowerOf(s[i]) ]

\* String.prototype.includes(t)
Includes(s, t) ==
  \E off \in 0..(Len(s) - Len(t)) : \A k \in 1..Len(t) : s[off + k] = t[k]

\* String.prototype.trim()
RECURSIVE Trim(_)
Trim(s) ==
  IF s = << >> THEN s
  ELSE IF Head(s) \in WhiteSpace THEN Trim(Tail(s))
  ELSE IF s[Len(s)] \in WhiteSpace THEN Trim(SubSeq(s, 1, Len(s) - 1))
  ELSE s

\* ------------------------------------------------------- PasswordGenerator
NumberChars == << "0", "1", "2", "3", "4", "5", "6", "7", "8", "9" >>

\* a mutant of SymbolChars: two symbols more
SymbolCharsAndMore ==
  << "!", "@", "#", "$", "%", "^", "&", "*", "(", ")", "_", "+", "-",
     "=", "[", "]", "{", "}", "|", ";", ":", ",", ".", "<", ">", "?",
     "/", "~" >>

SymbolChars ==
  << "!", "@", "#", "$", "%", "^", "&", "*", "(", ")", "_", "+", "-",
     "=", "[", "]", "{", "}", "|", ";", ":", ",", ".", "<", ">", "?" >>

\* /[a-z]/.test(password)
HasLowercase(password) ==
  \E i \in 1..Len(password) : password[i] \in Range(LowercaseChars)

\* /[A-Z]/.test(password)
HasUppercase(password) ==
  \E i \in 1..Len(password) : password[i] \in Range(UppercaseChars)

\* /[0-9]/.test(password)
HasNumber(password) ==
  \E i \in 1..Len(password) : password[i] \in Range(NumberChars)

\* /[^a-zA-Z0-9]/.test(password)
HasOther(password) ==
  \E i \in 1..Len(password) :
    password[i] \notin Range(LowercaseChars) \cup Range(UppercaseChars)
                         \cup Range(NumberChars)

\* the least power of two greater than u
RECURSIVE PowerOfTwoAbove(_, _)
PowerOfTwoAbove(u, p) == IF p > u THEN p ELSE PowerOfTwoAbove(u, 2 * p)

\* uniqueChars > password.length * 0.7, as IEEE-754 doubles compute it, for
\* 0 <= uniqueChars <= length. The double 0.7 is 0.7 - 0.8 * 2^-54, so the
\* exact product is 0.7 * length - 0.8 * length * 2^-54. When 0.7 * length
\* is not an integer it is at least 0.1 away from uniqueChars and rounding
\* cannot change the comparison. When 0.7 * length is the integer uniqueChars,
\* the doubles just below it are P * 2^-53 apart (P the least power of two
\* above it), and the product rounds to a double below uniqueChars exactly
\* when 0.8 * length * 2^-54 > P * 2^-54: then uniqueChars > product.
ExceedsSeventyPercent(uniqueChars, length) ==
  IF 10 * uniqueChars # 7 * length
    THEN 10 * uniqueChars > 7 * length
    ELSE 8 * (length \div 10) > PowerOfTwoAbove(uniqueChars, 1)

\* Math.min
Min(a, b) == IF a <= b THEN a ELSE b

\* a mutant of CalculateStrength: no bonus for the distinct characters
CalculateStrengthNoUniqueness(password) ==
  IF password = << >> THEN 0
  ELSE Min(100,
             (IF Len(password) >= 8 THEN 20 ELSE 0)
           + (IF Len(password) >= 12 THEN 10 ELSE 0)
           + (IF Len(password) >= 16 THEN 10 ELSE 0)
           + (IF HasLowercase(password) THEN 15 ELSE 0)
           + (IF HasUppercase(password) THEN 15 ELSE 0)
           + (IF HasNumber(password) THEN 15 ELSE 0)
           + (IF HasOther(password) THEN 15 ELSE 0))

\* BasePasswordGenerator.calculateStrength(password)
CalculateStrength(password) ==
  IF password = << >> THEN 0
  ELSE LET uniqueChars == Cardinality(Range(password)) IN
       Min(100,
             (IF Len(password) >= 8 THEN 20 ELSE 0)
           + (IF Len(password) >= 12 THEN 10 ELSE 0)
           + (IF Len(password) >= 16 THEN 10 ELSE 0)
           + (IF HasLowercase(password) THEN 15 ELSE 0)
           + (IF HasUppercase(password) THEN 15 ELSE 0)
           + (IF HasNumber(password) THEN 15 ELSE 0)
           + (IF HasOther(password) THEN 15 ELSE 0)
           + (IF ExceedsSeventyPercent(uniqueChars, Len(password)) THEN 10 ELSE 0))

\* a mutant of GetStrengthLevel: the thresholds belong to the lower band
GetStrengthLevelInclusive(score) ==
  IF score <= 30 THEN "Weak"
  ELSE IF score <= 60 THEN "Fair"
  ELSE IF score <= 80 THEN "Good"
  ELSE "Strong"

\* BasePasswordGenerator.getStrengthLevel(score)
GetStrengthLevel(score) ==
  IF score < 30 THEN "Weak"
  ELSE IF score < 60 THEN "Fair"
  ELSE IF score < 80 THEN "Good"
  ELSE "Strong"

\* BasePasswordGenerator.getStrengthColor(score)
GetStrengthColor(score) ==
  IF score < 30 THEN "bg-red-500"
  ELSE IF score < 60 THEN "bg-yellow-500"
  ELSE IF score < 80 THEN "bg-blue-500"
  ELSE "bg-green-500"

\* --------------------------------------------------------- PasswordManager
\* a mutant of Find: an id that matches nothing yields the first element
FindOrFirst(pwds, id) ==
  IF \E i \in 1..Len(pwds) : pwds[i].id = id
    THEN CHOOSE i \in 1..Len(pwds) :
           pwds[i].id = id /\ \A j \in 1..(i - 1) : pwds[j].id # id
    ELSE IF Len(pwds) > 0 THEN 1 ELSE 0

\* this.passwords.find(p => p.id === id): the position of the first match,
\* 0 for undefined
Find(pwds, id) ==
  IF \E i \in 1..Len(pwds) : pwds[i].id = id
    THEN CHOOSE i \in 1..Len(pwds) :
           pwds[i].id = id /\ \A j \in 1..(i - 1) : pwds[j].id # id
    ELSE 0

\* a mutant of FilterOut: the predicate is inverted
FilterOutInverted(pwds, id) == SelectSeq(pwds, LAMBDA p : p.id = id)

\* this.passwords.filter(p => p.id !== id)
FilterOut(pwds, id) == SelectSeq(pwds, LAMBDA p : p.id # id)

\* PasswordManager.getAllPasswords(): a new array of the same objects
GetAllPasswords(pwds) == [ i \in 1..Len(pwds) |-> pwds[i] ]

\* PasswordManager.getPasswordById(id): << >> stands for null
GetPasswordById(pwds, id) ==
  IF Find(pwds, id) # 0 THEN << pwds[Find(pwds, id)] >> ELSE << >>

\* what a read hands to its caller: the records (elems), for each of them the
\* position in this.passwords of the object it is (refs; 0 for an object
\* that is not in the collection), and whether the array handed out is the
\* array this.passwords itself (shared)
Returned(elems, refs, shared) ==
  [ elems |-> elems, refs |-> refs, shared |-> shared ]

\* the positions of pwds, in order
Indices(pwds) == [ i \in 1..Len(pwds) |-> i ]

\* a mutant of GetAllPasswordsResult: return this.passwords
GetAllPasswordsNoCopy(pwds) ==
  Returned(pwds, Indices(pwds), TRUE)

\* PasswordManager.getAllPasswords(): [...this.passwords] is a new array
\* that holds the objects of the collection
GetAllPasswordsResult(pwds) ==
  Returned(GetAllPasswords(pwds), Indices(pwds), FALSE)

\* PasswordManager.getPasswordById(id): the object found, or null
GetPasswordByIdResult(pwds, id) ==
  Returned(GetPasswordById(pwds, id),
           IF Find(pwds, id) # 0 THEN << Find(pwds, id) >> ELSE << >>,
           FALSE)

\* a mutant of MatchesTerm: the notes are searched too
MatchesTermOrNotes(password, term) ==
  \/ Includes(ToLowerCase(password.website), term)
  \/ Includes(ToLowerCase(password.username), term)
  \/ password.notes # UNDEF /\ Includes(ToLowerCase(password.notes), term)

\* the predicate given to filter by searchPasswords
MatchesTerm(password, term) ==
  \/ Includes(ToLowerCase(password.website), term)
  \/ Includes(ToLowerCase(password.username), term)

\* a mutant of SearchPasswordsOp: the term is not trimmed before the test
SearchPasswordsNoTrim(pwds, searchTerm) ==
  IF searchTerm = << >>
    THEN GetAllPasswordsResult(pwds)
    ELSE LET term == ToLowerCase(searchTerm)
             found == SelectSeq(Indices(pwds), LAMBDA i : MatchesTerm(pwds[i], term))
         IN  Returned([ j \in 1..Len(found) |-> pwds[found[j]] ], found, FALSE)

\* PasswordManager.searchPasswords(searchTerm)
SearchPasswordsOp(pwds, searchTerm) ==
  IF Trim(searchTerm) = << >>
    THEN GetAllPasswordsResult(pwds)
    ELSE LET term == ToLowerCase(searchTerm)
             found == SelectSeq(Indices(pwds), LAMBDA i : MatchesTerm(pwds[i], term))
         IN  Returned([ j \in 1..Len(found) |-> pwds[found[j]] ], found, FALSE)

\* the outcome of one call: the fields of the manager and of the backend
\* after it, what the caller gets (ret, success, threw) and what the call did
\* to the backend (flushed: a save was requested; logged: handleError ran)
Outcome(pwds, stor, ret, success, threw, flushed, logged) ==
  [ passwords |-> pwds, storage |-> stor, ret |-> ret, success |-> success,
    threw |-> threw, flushed |-> flushed, logged |-> logged ]

\* a mutant of AddPasswordOp: the record is taken back when the flush fails
AddPasswordRollsBack(pwds, stor, data, tId, tC, tU, ok) ==
  LET newPassword == NewPasswordEntry(Get(data, "website"), Get(data, "username"),
                                      Get(data, "password"), Get(data, "notes"),
                                      UNDEF, tId, tC, tU)
      pushed == Append(pwds, newPassword)
      saved == SavePasswords(stor, pushed, ok)
  IN  Outcome(IF ok THEN pushed ELSE pwds, saved.storage,
              IF saved.threw THEN << >> ELSE << newPassword >>,
              ~saved.threw, saved.threw, TRUE, saved.logged)

\* PasswordManager.addPassword(passwordData)
AddPasswordOp(pwds, stor, data, tId, tC, tU, ok) ==
  LET newPassword == NewPasswordEntry(Get(data, "website"), Get(data, "username"),
                                      Get(data, "password"), Get(data, "notes"),
                                      UNDEF, tId, tC, tU)
      pushed == Append(pwds, newPassword)
      saved == SavePasswords(stor, pushed, ok)
  IN  Outcome(pushed, saved.storage,
              IF saved.threw THEN << >> ELSE << newPassword >>,
              ~saved.threw, saved.threw, TRUE, saved.logged)

\* a mutant of UpdatePasswordOp: update() is not called for an empty partial
UpdatePasswordSkipEmpty(pwds, stor, id, data, t, ok) ==
  LET idx == Find(pwds, id) IN
  IF idx = 0
    THEN Outcome(pwds, stor, << >>, FALSE, FALSE, FALSE, FALSE)
    ELSE LET updated == [ pwds EXCEPT ![idx] = IF DOMAIN data = {} THEN @
                                               ELSE EntryUpdate(@, data, t) ]
             saved == SavePasswords(stor, updated, ok)
         IN  Outcome(updated, saved.storage,
                     IF saved.threw THEN << >> ELSE << updated[idx] >>,
                     ~saved.threw, saved.threw, TRUE, saved.logged)

\* PasswordManager.updatePassword(id, passwordData) at clock reading t
UpdatePasswordOp(pwds, stor, id, data, t, ok) ==
  LET idx == Find(pwds, id) IN
  IF idx = 0
    THEN Outcome(pwds, stor, << >>, FALSE, FALSE, FALSE, FALSE)
    ELSE LET updated == [ pwds EXCEPT ![idx] = EntryUpdate(pwds[idx], data, t) ]
             saved == SavePasswords(stor, updated, ok)
         IN  Outcome(updated, saved.storage,
                     IF saved.threw THEN << >> ELSE << updated[idx] >>,
                     ~saved.threw, saved.threw, TRUE, saved.logged)

\* PasswordManager.deletePassword(id)
DeletePasswordOp(pwds, stor, id, ok) ==
  LET initialLength == Len(pwds)
      filtered == FilterOut(pwds, id)
  IN  IF Len(filtered) < initialLength
        THEN LET saved == SavePasswords(stor, filtered, ok)
             IN  Outcome(filtered, saved.storage, << >>,
                         ~saved.threw, saved.threw, TRUE, saved.logged)
        ELSE Outcome(filtered, stor, << >>, FALSE, FALSE, FALSE, FALSE)

\* PasswordManager.clearAllPasswords()
\* a mutant of ClearAllPasswordsOp: the backend is cleared, not the collection
ClearAllPasswordsBackendOnly(pwds, stor, ok) ==
  LET cleared == ClearPasswords(stor, ok)
  IN  Outcome(pwds, cleared.storage, << >>, ~cleared.threw, cleared.threw,
              FALSE, cleared.logged)

ClearAllPasswordsOp(pwds, stor, ok) ==
  LET cleared == ClearPasswords(stor, ok)
  IN  Outcome(<< >>, cleared.storage, << >>, ~cleared.threw, cleared.threw,
              FALSE, cleared.logged)

\* a mutant of GetCharacterSet: no fallback when no category is chosen
GetCharacterSetNoFallback(opts) ==
  (IF opts.includeLowercase THEN LowercaseChars ELSE << >>)
  \o (IF opts.includeUppercase THEN UppercaseChars ELSE << >>)
  \o (IF opts.includeNumbers THEN NumberChars ELSE << >>)
  \o (IF opts.includeSymbols THEN SymbolChars ELSE << >>)

\* SecurePasswordGenerator.getCharacterSet(options)
GetCharacterSet(opts) ==
  LET set == (IF opts.includeLowercase THEN LowercaseChars ELSE << >>)
             \o (IF opts.includeUppercase THEN UppercaseChars ELSE << >>)
             \o (IF opts.includeNumbers THEN NumberChars ELSE << >>)
             \o (IF opts.includeSymbols THEN SymbolChars ELSE << >>)
  IN  IF set # << >> THEN set ELSE LowercaseChars

\* a mutant of GeneratePassword: the random value indexes the four
\* categories together, whatever the options
GeneratePasswordAnyCategory(opts, array) ==
  LET all == LowercaseChars \o UppercaseChars \o NumberChars \o SymbolChars
  IN  [ i \in 1..opts.length |-> all[(array[i] % Len(all)) + 1] ]

\* SecurePasswordGenerator.generatePassword(options); array holds the values
\* of crypto.getRandomValues. Strings are indexed from 0, sequences from 1
GeneratePassword(opts, array) ==
  LET set == GetCharacterSet(opts)
  IN  [ i \in 1..opts.length |-> set[(array[i] % Len(set)) + 1] ]

\* ------------------------------------------------- server: passwords router
\* A session is the id of the authenticated user, 0 when the request is not
\* authenticated. The table is the sequence of the rows of prisma.password,
\* in the order of their creation; created counts the rows ever created.

\* what a handler answers and leaves behind: the HTTP status, the JSON body
\* (a sequence of objects), the table, and the number of prisma calls made
Response(status, body, table, made, queries) ==
  [ status |-> status, body |-> body, rows |-> table, created |-> made,
    queries |-> queries ]

\* requireAuth answers 401 and does not call next()
NotAuthenticated(table, made) ==
  Response(401, << [error |-> "Not authenticated"] >>, table, made, 0)

\* the object a row is sent as
RowJSON(row) ==
  [ k \in { key \in DOMAIN row : key = "userId" \/ row[key] # UNDEF } |-> row[k] ]

\* router.get('/'): findMany({ where: { userId } })
RouterGet(table, made, session) ==
  IF session = 0 THEN NotAuthenticated(table, made)
  ELSE LET found == SelectSeq(table, LAMBDA row : row.userId = session)
       IN  Response(200, [ i \in 1..Len(found) |-> RowJSON(found[i]) ], table, made, 1)

\* router.post('/'): create({ data: { website, username, password, notes,
\* userId } }); the database gives the row its id
RouterPost(table, made, session, body) ==
  IF session = 0 THEN NotAuthenticated(table, made)
  ELSE LET row == [ id |-> NumToString(made), userId |-> session,
                    website |-> Get(body, "website"),
                    username |-> Get(body, "username"),
                    password |-> Get(body, "password"),
                    notes |-> Get(body, "notes") ]
       IN  Response(200, << RowJSON(row) >>, Append(table, row), made + 1, 1)

\* updateMany data: a field whose value is undefined is left as it is
RowUpdate(row, body) ==
  [ row EXCEPT !.website = IF Defined(Get(body, "website"))
                             THEN Get(body, "website") ELSE @,
               !.username = IF Defined(Get(body, "username"))
                              THEN Get(body, "username") ELSE @,
               !.password = IF Defined(Get(body, "password"))
                              THEN Get(body, "password") ELSE @,
               !.notes = IF Defined(Get(body, "notes"))
                           THEN Get(body, "notes") ELSE @ ]

\* a mutant of RouterPut: the rows are selected by id alone
RouterPutAnyOwner(table, made, session, id, body) ==
  IF session = 0 THEN NotAuthenticated(table, made)
  ELSE LET hit(row) == row.id = id
           count == Len(SelectSeq(table, hit))
       IN  Response(200, << [count |-> count] >>,
                    [ i \in 1..Len(table) |->
                        IF hit(table[i]) THEN RowUpdate(table[i], body) ELSE table[i] ],
                    made, 1)

\* router.put('/:id'): updateMany({ where: { id, userId }, data }); the body
\* is the count object updateMany returns
RouterPut(table, made, session, id, body) ==
  IF session = 0 THEN NotAuthenticated(table, made)
  ELSE LET hit(row) == row.id = id /\ row.userId = session
           count == Len(SelectSeq(table, hit))
       IN  Response(200, << [count |-> count] >>,
                    [ i \in 1..Len(table) |->
                        IF hit(table[i]) THEN RowUpdate(table[i], body) ELSE table[i] ],
                    made, 1)

\* router.delete('/:id'): deleteMany({ where: { id, userId } }), then
\* { success: true } whatever was deleted
RouterDelete(table, made, session, id) ==
  IF session = 0 THEN NotAuthenticated(table, made)
  ELSE Response(200, << [success |-> TRUE] >>,
                SelectSeq(table, LAMBDA row : ~(row.id = id /\ row.userId = session)),
                made, 1)

\* GET /:id: the router has no such route, express answers 404
RouterGetById(table, made, session, id) ==
  Response(404, << >>, table, made, 0)

\* ------------------------------------------------------ PasswordAPIService
\* what a method of the service gives its caller (ret, success, threw) and
\* what its requests did on the server
ApiResult(ret, success, threw, resp) ==
  [ ret |-> ret, success |-> success, threw |-> threw, status |-> resp.status,
    rows |-> resp.rows, created |-> resp.created, queries |-> resp.queries ]

\* makeRequest throws unless the response is ok (status 200..299)
Ok(resp) == resp.status >= 200 /\ resp.status <= 299

\* PasswordAPIService.getAllPasswords(); fromJSON reads the clock at t
ApiGetAllPasswords(table, made, session, t) ==
  LET resp == RouterGet(table, made, session)
  IN  IF Ok(resp)
        THEN ApiResult([ i \in 1..Len(resp.body) |-> FromJSON(resp.body[i], t, t) ],
                       TRUE, FALSE, resp)
        ELSE ApiResult(<< >>, FALSE, TRUE, resp)

\* PasswordAPIService.addPassword(passwordData)
ApiAddPassword(table, made, session, data, t) ==
  LET resp == RouterPost(table, made, session, JSONStringify(<< data >>)[1])
  IN  IF Ok(resp)
        THEN ApiResult(<< FromJSON(resp.body[1], t, t) >>, TRUE, FALSE, resp)
        ELSE ApiResult(<< >>, FALSE, TRUE, resp)

\* PasswordAPIService.getPasswordById(id): null when the request fails
ApiGetPasswordById(table, made, session, id, t) ==
  LET resp == RouterGetById(table, made, session, id)
  IN  IF Ok(resp)
        THEN ApiResult(<< FromJSON(resp.body[1], t, t) >>, TRUE, FALSE, resp)
        ELSE ApiResult(<< >>, FALSE, FALSE, resp)

\* PasswordAPIService.updatePassword(id, passwordData): PUT, then
\* getPasswordById when the count is positive
ApiUpdatePassword(table, made, session, id, data, t) ==
  LET resp == RouterPut(table, made, session, id, JSONStringify(<< data >>)[1])
  IN  IF ~Ok(resp) THEN ApiResult(<< >>, FALSE, TRUE, resp)
      ELSE IF resp.body[1].count > 0
        THEN LET got == ApiGetPasswordById(resp.rows, resp.created, session, id, t)
             IN  [ got EXCEPT !.queries = resp.queries + got.queries ]
        ELSE ApiResult(<< >>, FALSE, FALSE, resp)

\* PasswordAPIService.deletePassword(id): result.success
ApiDeletePassword(table, made, session, id) ==
  LET resp == RouterDelete(table, made, session, id)
  IN  IF Ok(resp)
        THEN ApiResult(<< >>, resp.body[1].success, FALSE, resp)
        ELSE ApiResult(<< >>, FALSE, TRUE, resp)

\* PasswordAPIService.searchPasswords(searchTerm): the list is fetched and
\* filtered by website, username and notes
ApiSearchPasswords(table, made, session, searchTerm, t) ==
  LET all == ApiGetAllPasswords(table, made, session, t)
      lowerSearchTerm == ToLowerCase(searchTerm)
  IN  IF all.threw \/ Trim(searchTerm) = << >> THEN all
      ELSE [ all EXCEPT !.ret = SelectSeq(all.ret, LAMBDA password :
               \/ Includes(ToLowerCase(password.website), lowerSearchTerm)
               \/ Includes(ToLowerCase(password.username), lowerSearchTerm)
               \/ /\ password.notes # UNDEF
                  /\ Includes(ToLowerCase(password.notes), lowerSearchTerm)) ]

\* ------------------------------------------------------------------ state
VARIABLES
  now,        \* the clock, in milliseconds
  instance,   \* PasswordManager.instance is set
  passwords,  \* PasswordManager.passwords
  storage,    \* the localStorage item
  last,       \* the last call: its name, arguments and outcome
  calls,      \* the number of calls made to the program so far
  pw,         \* the password last given to calculateStrength
  score,      \* calculateStrength(pw)
  rated,      \* the score last given to getStrengthLevel and getStrengthColor
  level,      \* getStrengthLevel(rated)
  color,      \* getStrengthColor(rated)
  options,    \* the options last given to generatePassword
  randoms,    \* the values crypto.getRandomValues put in the array
  charset,    \* getCharacterSet(options)
  generated,  \* the password generatePassword returned
  rows,       \* the server's table prisma.password
  created,    \* the number of rows the server ever created
  service,    \* PasswordManager.storageService of the instance
  loads,      \* the number of storageService.getPasswords() calls of this process
  behind      \* a flush has failed and none has succeeded since

vars ==
  <<now, instance, passwords, storage, last, calls, pw, score, rated, level, color,
    options, randoms, charset, generated, rows, created, service, loads, behind>>

\* the state of the password generator's helpers
genVars == <<pw, score, rated, level, color, options, randoms, charset, generated>>

\* the state of the server
serverVars == <<rows, created>>

\* the state of the singleton: the backend it holds and the reads it made
singletonVars == <<service, loads>>

NoData == [k \in {} |-> UNDEF]

\* the options before generatePassword was ever called
NoOptions ==
  [ length |-> 0, includeUppercase |-> FALSE, includeLowercase |-> FALSE,
    includeNumbers |-> FALSE, includeSymbols |-> FALSE ]

\* the record of a call
Call(op, id, data, backendOk, out) ==
  [ op |-> op, id |-> id, data |-> data, backendOk |-> backendOk,
    ret |-> out.ret, success |-> out.success, threw |-> out.threw,
    flushed |-> out.flushed, logged |-> out.logged,
    refs |-> << >>, shared |-> FALSE, term |-> << >>, mutation |-> "none",
    user |-> 0, status |-> 0, queries |-> 0, given |-> "none", stale |-> FALSE ]

NoOutcome == Outcome(<< >>, NoItem, << >>, TRUE, FALSE, FALSE, FALSE)

\* the inputs of addPassword
NewData ==
  { [website |-> <<"G", "i">>, username |-> <<"u">>, password |-> <<"p">>],
    [website |-> <<"x">>, username |-> <<"u">>, password |-> <<"p">>,
     notes |-> <<"n">>] }

\* the inputs of updatePassword: some keys present, some absent, one present
\* with the value undefined, one present with the empty string
Partials ==
  { NoData,
    [username |-> <<"v">>, password |-> <<"q">>],
    [website |-> << >>, notes |-> UNDEF] }

\* the ids a caller may pass: every id the clock can have produced
IdArgs == { NumToString(t) : t \in Times }

\* non-decreasing clock readings, one per stored item, from the current time
Readings(n) ==
  { ts \in [1..n -> now..MaxTime] : \A i \in 1..(n - 1) : ts[i] <= ts[i + 1] }

Init ==
  /\ now = 0
  /\ instance = FALSE
  /\ passwords = << >>
  /\ storage \in {NoItem, Corrupt}
  /\ last = Call("init", UNDEF, NoData, TRUE, NoOutcome)
  /\ calls = 0
  /\ pw = << >>
  /\ score = 0
  /\ rated = 0
  /\ level = "Weak"
  /\ color = "bg-red-500"
  /\ options = NoOptions
  /\ randoms = << >>
  /\ charset = << >>
  /\ generated = << >>
  /\ rows = << >>
  /\ created = 0
  /\ service = "none"
  /\ loads = 0
  /\ behind = FALSE

\* whether the durable copy is behind after a call: a flush that fails leaves
\* it behind, one that succeeds writes the whole collection
Behind(was, flushed, ok) == IF flushed THEN ~ok ELSE was

\* one more call is made
Counted == calls < MaxCalls /\ calls' = calls + 1

\* time passes
Tick ==
  /\ now < MaxTime
  /\ now' = now + 1
  /\ last' = Call("tick", UNDEF, NoData, TRUE, NoOutcome)
  /\ UNCHANGED <<instance, passwords, storage, calls>>
  /\ UNCHANGED genVars
  /\ UNCHANGED serverVars
  /\ UNCHANGED singletonVars
  /\ UNCHANGED behind

\* the page is reloaded: a new process, the static instance is unset
Restart ==
  /\ Counted
  /\ instance
  /\ instance' = FALSE
  /\ passwords' = << >>
  /\ service' = "none"
  /\ loads' = 0
  /\ behind' = FALSE
  /\ last' = Call("restart", UNDEF, NoData, TRUE, NoOutcome)
  /\ UNCHANGED <<now, storage>>
  /\ UNCHANGED genVars
  /\ UNCHANGED serverVars

\* the storage services a caller can hand to getInstance: the one the
\* factory makes for the hook, and any other implementation of IStorageService
Services == {"localStorage", "other"}

\* what the service given to the constructor holds; another service is empty
ItemOf(given, stor) == IF given = "localStorage" THEN stor ELSE NoItem

\* getInstance constructs whenever it is given a service it does not hold
GetInstanceRebuilds(hasInstance, held, given) ==
  [ constructs |-> ~hasInstance \/ given # held, service |-> given ]

\* PasswordManager.getInstance(storageService): constructs only when no
\* instance is set, and the instance keeps the service it was constructed with
GetInstanceOp(hasInstance, held, given) ==
  IF ~hasInstance
    THEN [ constructs |-> TRUE, service |-> given ]
    ELSE [ constructs |-> FALSE, service |-> held ]

\* getInstance(given): the first call constructs the manager, which loads the
\* collection; later calls return the instance
GetInstanceFrom(given, oks) ==
  /\ Counted
  /\ UNCHANGED genVars
  /\ UNCHANGED serverVars
  /\ LET got == GetInstanceOp(instance, service, given) IN
     IF ~got.constructs
       THEN /\ last' = [Call("getInstance", UNDEF, NoData, TRUE, NoOutcome)
                          EXCEPT !.given = given]
            /\ service' = got.service
            /\ UNCHANGED <<now, instance, passwords, storage, loads, behind>>
       ELSE LET item == ItemOf(given, storage) IN
            \E ok \in oks :
            \E ts \in Readings(IF ok /\ item.kind = "json" THEN Len(item.data) ELSE 0) :
              LET load == GetPasswords(item, ok, ts) IN
              /\ instance' = ~load.threw
              /\ passwords' = load.ret
              /\ service' = got.service
              /\ loads' = loads + 1
              /\ behind' = FALSE
              /\ now' = IF Len(ts) > 0 THEN ts[Len(ts)] ELSE now
              /\ last' = [Call("construct", UNDEF, NoData, ok,
                               Outcome(load.ret, item, << >>, ~load.threw, load.threw,
                                       FALSE, load.logged))
                           EXCEPT !.given = given]
              /\ UNCHANGED storage

\* the hook's call: the service is the one the factory makes for localStorage
GetInstance(oks) == GetInstanceFrom("localStorage", oks)

\* a further call of getInstance, with any storage service
GetInstanceAgain ==
  /\ instance
  /\ \E given \in Services : GetInstanceFrom(given, {TRUE})

AddPassword(oks) ==
  /\ Counted
  /\ instance
  /\ Len(passwords) < MaxLen
  /\ \E data \in NewData, ok \in oks :
     \E tId \in now..MaxTime :
     \E tC \in tId..MaxTime :
     \E tU \in tC..MaxTime :
       LET out == AddPasswordOp(passwords, storage, data, tId, tC, tU, ok) IN
       /\ passwords' = out.passwords
       /\ storage' = out.storage
       /\ now' = tU
       /\ behind' = Behind(behind, out.flushed, ok)
       /\ last' = [Call("add", UNDEF, data, ok, out) EXCEPT
                      !.refs = IF out.ret # << >> THEN << Len(out.passwords) >>
                               ELSE << >>,
                      !.stale = behind]
  /\ UNCHANGED instance
  /\ UNCHANGED genVars
  /\ UNCHANGED serverVars
  /\ UNCHANGED singletonVars

UpdatePassword(oks) ==
  /\ Counted
  /\ instance
  /\ \E id \in IdArgs, data \in Partials, ok \in oks :
       LET out == UpdatePasswordOp(passwords, storage, id, data, now, ok) IN
       /\ ok \/ out.flushed
       /\ passwords' = out.passwords
       /\ storage' = out.storage
       /\ behind' = Behind(behind, out.flushed, ok)
       /\ last' = [Call("update", id, data, ok, out) EXCEPT
                      !.refs = IF out.ret # << >> THEN << Find(passwords, id) >>
                               ELSE << >>,
                      !.stale = behind]
  /\ UNCHANGED <<now, instance>>
  /\ UNCHANGED genVars
  /\ UNCHANGED serverVars
  /\ UNCHANGED singletonVars

DeletePassword(oks) ==
  /\ Counted
  /\ instance
  /\ \E id \in IdArgs, ok \in oks :
       LET out == DeletePasswordOp(passwords, storage, id, ok) IN
       /\ ok \/ out.flushed
       /\ passwords' = out.passwords
       /\ storage' = out.storage
       /\ behind' = Behind(behind, out.flushed, ok)
       /\ last' = [Call("delete", id, NoData, ok, out) EXCEPT !.stale = behind]
  /\ UNCHANGED <<now, instance>>
  /\ UNCHANGED genVars
  /\ UNCHANGED serverVars
  /\ UNCHANGED singletonVars

ClearAllPasswords(oks) ==
  /\ Counted
  /\ instance
  /\ \E ok \in oks :
       LET out == ClearAllPasswordsOp(passwords, storage, ok) IN
       /\ passwords' = out.passwords
       /\ storage' = out.storage
       /\ behind' = Behind(behind, TRUE, ok)
       /\ last' = [Call("clear", UNDEF, NoData, ok, out) EXCEPT !.stale = behind]
  /\ UNCHANGED <<now, instance>>
  /\ UNCHANGED genVars
  /\ UNCHANGED serverVars
  /\ UNCHANGED singletonVars

\* the terms a caller searches for: empty, whitespace-only, and terms that
\* occur (in another case) in a website, a username, a password or the notes
SearchTerms ==
  { << >>, <<" ">>, <<"\t", " ">>, <<"G", "I">>, <<"U">>, <<"X">>,
    <<"p">>, <<"n">>, <<" ", "x">> }

\* a read: the collection and the backend are left alone
Read(op, id, term, result) ==
  /\ last' = [Call(op, id, NoData, TRUE, NoOutcome) EXCEPT
                 !.ret = result.elems, !.refs = result.refs,
                 !.shared = result.shared, !.term = term]
  /\ UNCHANGED <<now, instance, passwords, storage>>
  /\ UNCHANGED genVars
  /\ UNCHANGED serverVars
  /\ UNCHANGED singletonVars
  /\ UNCHANGED behind

CallGetAllPasswords ==
  /\ Counted
  /\ instance
  /\ Read("getAll", UNDEF, << >>, GetAllPasswordsResult(passwords))

CallSearchPasswords ==
  /\ Counted
  /\ instance
  /\ \E term \in SearchTerms :
       Read("search", UNDEF, term, SearchPasswordsOp(passwords, term))

CallGetPasswordById ==
  /\ Counted
  /\ instance
  /\ \E id \in IdArgs :
       Read("getById", id, << >>, GetPasswordByIdResult(passwords, id))

\* Array.prototype.reverse()
Reverse(s) == [ i \in 1..Len(s) |-> s[Len(s) + 1 - i] ]

\* what the caller does to an array it was handed: push its first element
\* again, pop the last element, or reverse it
Mutated(arr, m) ==
  CASE m = "push" -> Append(arr, arr[1])
    [] m = "pop" -> SubSeq(arr, 1, Len(arr) - 1)
    [] m = "reverse" -> Reverse(arr)

\* the caller mutates the array the last read returned; the collection changes
\* only if that array is this.passwords itself
MutateReturnedArray ==
  /\ UNCHANGED calls
  /\ last.op \in {"getAll", "search"}
  /\ last.ret # << >>
  /\ \E m \in {"push", "pop", "reverse"} :
       /\ passwords' = IF last.shared THEN Mutated(passwords, m) ELSE passwords
       /\ last' = [Call("mutateArray", UNDEF, NoData, TRUE, NoOutcome) EXCEPT
                      !.ret = Mutated(last.ret, m), !.mutation = m]
  /\ UNCHANGED <<now, instance, storage>>
  /\ UNCHANGED genVars
  /\ UNCHANGED serverVars
  /\ UNCHANGED singletonVars
  /\ UNCHANGED behind

\* the caller assigns the password field of a record object the last call
\* returned; the object is the one this.passwords holds at position refs[j]
MutateReturnedRecord ==
  /\ UNCHANGED calls
  /\ last.op \in {"add", "getById", "getAll", "search"}
  /\ \E j \in 1..Len(last.refs) :
       /\ passwords' = IF last.refs[j] # 0
                          THEN [passwords EXCEPT ![last.refs[j]].password = <<"h">>]
                          ELSE passwords
       /\ last' = [Call("mutateRecord", last.ret[j].id, NoData, TRUE, NoOutcome) EXCEPT
                      !.ret = << [last.ret[j] EXCEPT !.password = <<"h">>] >>,
                      !.refs = << last.refs[j] >>, !.mutation = last.op]
  /\ UNCHANGED <<now, instance, storage>>
  /\ UNCHANGED genVars
  /\ UNCHANGED serverVars
  /\ UNCHANGED singletonVars
  /\ UNCHANGED behind

\* one step of the program with a backend whose calls have the outcomes oks
Step(oks) ==
  \/ Tick
  \/ Restart
  \/ GetInstance(oks)
  \/ AddPassword(oks)
  \/ UpdatePassword(oks)
  \/ DeletePassword(oks)
  \/ ClearAllPasswords(oks)

\* the program and its caller, which reads the collection and mutates what
\* it was handed; the backend is reliable
NextCaller ==
  \/ Step({TRUE})
  \/ CallGetAllPasswords
  \/ CallSearchPasswords
  \/ CallGetPasswordById
  \/ MutateReturnedArray
  \/ MutateReturnedRecord

SpecCaller == Init /\ [][NextCaller]_vars

\* the program, the reads of its caller and further getInstance calls
NextSingleton ==
  \/ Step({TRUE})
  \/ CallGetAllPasswords
  \/ CallSearchPasswords
  \/ CallGetPasswordById
  \/ GetInstanceAgain

SpecSingleton == Init /\ [][NextSingleton]_vars

\* the categories of characters, as getCharacterSet lists them
Categories == << LowercaseChars, UppercaseChars, NumberChars, SymbolChars >>

\* the k-th characters of the categories chosen that have that many, and
\* then the characters after them
RECURSIVE TakenInTurn(_, _)
TakenInTurn(chosen, k) ==
  IF k > 26 THEN << >>
  ELSE LET has == SelectSeq(<<1, 2, 3, 4>>,
                            LAMBDA j : j \in chosen /\ Len(Categories[j]) >= k)
       IN  [ j \in 1..Len(has) |-> Categories[has[j]][k] ] \o TakenInTurn(chosen, k + 1)

\* a password of the given length that repeats, in order, the given number
\* of distinct characters taken in turn from the categories chosen
PasswordOf(length, chosen, distinct) ==
  LET chars == TakenInTurn(chosen, 1)
  IN  [ i \in 1..length |-> chars[((i - 1) % distinct) + 1] ]

\* the lengths, categories and numbers of distinct characters of the
\* passwords scored
PasswordShapes ==
  { c \in ((1..MaxPwLen) \cup {LongPwLen}) \X (SUBSET {1, 2, 3, 4}) \X (1..LongPwLen) :
      /\ c[2] # {}
      /\ c[3] <= c[1]
      /\ c[3] <= Len(TakenInTurn(c[2], 1)) }

\* the word of the spec's example
CommonPassword == <<"p", "a", "s", "s", "w", "o", "r", "d">>

\* calculateStrength is applied to a password, and getStrengthLevel and
\* getStrengthColor to its result, as the form does
ScorePassword ==
  /\ last.op = "init"
  /\ \E password \in
         {CommonPassword, << >>} \cup
         { PasswordOf(c[1], c[2], c[3]) : c \in PasswordShapes } :
       /\ pw' = password
       /\ score' = CalculateStrength(password)
       /\ rated' = score'
       /\ level' = GetStrengthLevel(score')
       /\ color' = GetStrengthColor(score')
  /\ last' = Call("score", UNDEF, NoData, TRUE, NoOutcome)
  /\ UNCHANGED <<now, instance, passwords, storage, calls>>
  /\ UNCHANGED <<options, randoms, charset, generated>>
  /\ UNCHANGED serverVars
  /\ UNCHANGED singletonVars
  /\ UNCHANGED behind

\* getStrengthLevel and getStrengthColor are applied to a score
ClassifyScore ==
  /\ last.op = "init"
  /\ \E s \in 0..MaxScore :
       /\ rated' = s
       /\ level' = GetStrengthLevel(s)
       /\ color' = GetStrengthColor(s)
  /\ last' = Call("classify", UNDEF, NoData, TRUE, NoOutcome)
  /\ UNCHANGED <<now, instance, passwords, storage, calls, pw, score>>
  /\ UNCHANGED <<options, randoms, charset, generated>>
  /\ UNCHANGED serverVars
  /\ UNCHANGED singletonVars
  /\ UNCHANGED behind

\* the policies given to generatePassword: every combination of the four
\* flags, every length
Policies ==
  [ length : 0..MaxGenLen, includeUppercase : BOOLEAN, includeLowercase : BOOLEAN,
    includeNumbers : BOOLEAN, includeSymbols : BOOLEAN ]

\* the outcomes of crypto.getRandomValues on an array of the given length:
\* a first value and the values a fixed stride after it
RandomArrays(length) ==
  { [ i \in 1..length |-> first + (i - 1) * stride ] :
      first \in 0..MaxRandom, stride \in 0..MaxStride }

\* generatePassword is applied to a policy
GeneratePasswordCall ==
  /\ last.op = "init"
  /\ \E opts \in Policies :
     \E array \in RandomArrays(opts.length) :
       /\ options' = opts
       /\ randoms' = array
       /\ charset' = GetCharacterSet(opts)
       /\ generated' = GeneratePassword(opts, array)
  /\ last' = Call("generate", UNDEF, NoData, TRUE, NoOutcome)
  /\ UNCHANGED <<now, instance, passwords, storage, calls>>
  /\ UNCHANGED <<pw, score, rated, level, color>>
  /\ UNCHANGED serverVars
  /\ UNCHANGED singletonVars
  /\ UNCHANGED behind

\* the password generator's helpers: one of them is applied to one input
NextGenerator == ScorePassword \/ ClassifyScore \/ GeneratePasswordCall

SpecGenerator == Init /\ [][NextGenerator]_vars

\* the users of the server; 0 is a requester that is not authenticated
Users == 1..MaxUsers

\* the ids a requester may pass: those of the rows that can exist, and one
\* that no row has
RowIds == { NumToString(n) : n \in 0..MaxRecords }

\* the terms searched for through the service: empty, in a website in
\* another case, in the notes only
ApiSearchTerms == { << >>, <<"G", "I">>, <<"n">> }

\* the record of a call of the service by a requester
ApiCall(op, session, id, data, term, out) ==
  [ Call(op, id, data, TRUE, NoOutcome) EXCEPT
      !.ret = out.ret, !.success = out.success, !.threw = out.threw,
      !.term = term, !.user = session, !.status = out.status,
      !.queries = out.queries ]

\* what a call of the service leaves on the server
Served(out) ==
  /\ rows' = out.rows
  /\ created' = out.created
  /\ UNCHANGED <<now, instance, passwords, storage>>
  /\ UNCHANGED genVars
  /\ UNCHANGED singletonVars
  /\ UNCHANGED behind

CallApiGetAllPasswords ==
  /\ Counted
  /\ \E session \in {0} \cup Users :
       LET out == ApiGetAllPasswords(rows, created, session, now) IN
       /\ Served(out)
       /\ last' = ApiCall("apiGetAll", session, UNDEF, NoData, << >>, out)

CallApiAddPassword ==
  /\ Counted
  /\ created < MaxRecords
  /\ \E session \in {0} \cup Users, data \in NewData :
       LET out == ApiAddPassword(rows, created, session, data, now) IN
       /\ Served(out)
       /\ last' = ApiCall("apiAdd", session, UNDEF, data, << >>, out)

CallApiUpdatePassword ==
  /\ Counted
  /\ \E session \in {0} \cup Users, id \in RowIds, data \in Partials :
       LET out == ApiUpdatePassword(rows, created, session, id, data, now) IN
       /\ Served(out)
       /\ last' = ApiCall("apiUpdate", session, id, data, << >>, out)

CallApiDeletePassword ==
  /\ Counted
  /\ \E session \in {0} \cup Users, id \in RowIds :
       LET out == ApiDeletePassword(rows, created, session, id) IN
       /\ Served(out)
       /\ last' = ApiCall("apiDelete", session, id, NoData, << >>, out)

CallApiGetPasswordById ==
  /\ Counted
  /\ \E session \in {0} \cup Users, id \in RowIds :
       LET out == ApiGetPasswordById(rows, created, session, id, now) IN
       /\ Served(out)
       /\ last' = ApiCall("apiGetById", session, id, NoData, << >>, out)

CallApiSearchPasswords ==
  /\ Counted
  /\ \E session \in {0} \cup Users, term \in ApiSearchTerms :
       LET out == ApiSearchPasswords(rows, created, session, term, now) IN
       /\ Served(out)
       /\ last' = ApiCall("apiSearch", session, UNDEF, NoData, term, out)

\* the server and the service that calls it for any requester, in any order
NextServer ==
  \/ CallApiGetAllPasswords
  \/ CallApiAddPassword
  \/ CallApiUpdatePassword
  \/ CallApiDeletePassword
  \/ CallApiGetPasswordById
  \/ CallApiSearchPasswords

\* the server starts with an empty table; the browser's localStorage item
\* plays no part
InitServer == Init /\ storage = NoItem

SpecServer == InitServer /\ [][NextServer]_vars

\* the backend may fail at any call
Next == Step(BOOLEAN)

Spec == Init /\ [][Next]_vars

\* the backend never fails
NextReliable == Step({TRUE})

SpecReliable == Init /\ [][NextReliable]_vars

TypeOK ==
  /\ now \in Times
  /\ instance \in BOOLEAN
  /\ Len(passwords) <= MaxLen
  /\ calls \in 0..MaxCalls

\* ------------------------------------------------------------- properties
\* the array handed to JSON.stringify by savePasswords
Serialized(pwds) == [ i \in 1..Len(pwds) |-> ToJSON(pwds[i]) ]

\* what load() yields as plain records: the stored array, nothing otherwise
DurableCopy(stor) == IF stor.kind = "json" THEN stor.data ELSE << >>

\* the item a successful flush of pwds leaves in the backend
Flushed(pwds) == JSONItem(JSONStringify(Serialized(pwds)))

HasId(pwds, id) == \E i \in 1..Len(pwds) : pwds[i].id = id

\* the position of the record that updatePassword(id, ..) works on
FirstWithId(pwds, id) ==
  CHOOSE i \in 1..Len(pwds) :
    pwds[i].id = id /\ \A j \in 1..(i - 1) : pwds[j].id # id

ContentKeys == {"website", "username", "password", "notes"}

\* what the caller of an operation can see of its outcome
CallerView(o) == [ret |-> o.ret, threw |-> o.threw]

\* C1: for every record of the collection and every later clock reading,
\* fromJSON(toJSON(record)) has the same id, website, username, password,
\* notes, createdAt and updatedAt as the record.
C1_RoundTrip ==
  \A i \in 1..Len(passwords) :
    \A tC \in now..MaxTime :
      \A tU \in tC..MaxTime :
        ToJSON(FromJSON(ToJSON(passwords[i]), tC, tU)) = ToJSON(passwords[i])

\* C2: no two records of the in-memory collection have the same id.
C2_UniqueIds ==
  \A i, j \in 1..Len(passwords) :
    i # j => passwords[i].id # passwords[j].id

\* C3: every record of the collection has updatedAt >= createdAt, and an
\* operation that keeps a record never lowers its updatedAt.
C3_UpdatedAtOrder ==
  /\ [](\A i \in 1..Len(passwords) :
          IsoLeq(passwords[i].createdAt, passwords[i].updatedAt))
  /\ [][last'.op \in {"add", "update"} =>
          \A i \in 1..Len(passwords) :
            IsoLeq(passwords[i].updatedAt, passwords'[i].updatedAt)]_vars

\* C4: with a backend that never fails, after construction and after every
\* completed add, found update, found delete or clear, the durable copy is
\* the serialization of the whole in-memory collection, in the same order.
C4_DurableIsWholeCollection ==
  ( \/ last.op \in {"construct", "add", "clear"}
    \/ last.op \in {"update", "delete"} /\ last.success )
  => DurableCopy(storage) = JSONStringify(Serialized(passwords))

\* C5: right after addPassword, getPasswordById(id of the returned record)
\* returns a record equal to the one addPassword returned.
C5_AddThenGetById ==
  (last.op = "add" /\ last.ret # << >>)
  => GetPasswordById(passwords, last.ret[1].id) = last.ret

\* C6: deletePassword(id) on a present id returns true, flushes the remaining
\* collection and leaves no record with that id; on an absent id it returns
\* false, does not flush and leaves the collection and the backend unchanged.
C6_Delete ==
  [][last'.op = "delete" =>
       IF HasId(passwords, last'.id)
         THEN /\ last'.success
              /\ ~last'.threw
              /\ last'.flushed
              /\ last'.backendOk => storage' = Flushed(passwords')
              /\ GetPasswordById(passwords', last'.id) = << >>
         ELSE /\ ~last'.success
              /\ ~last'.threw
              /\ ~last'.flushed
              /\ ~last'.logged
              /\ storage' = storage
              /\ GetAllPasswords(passwords') = GetAllPasswords(passwords)]_vars

\* C6 witness: a delete of a present id has succeeded and flushed, with
\* another record left in the collection.
C6_Witness ==
  /\ last.op = "delete"
  /\ last.success
  /\ last.flushed
  /\ Len(passwords) > 0

\* C7: updatePassword(id, partial) with an absent id returns null, calls no
\* backend operation and leaves every record unchanged.
C7_UpdateAbsent ==
  [][(last'.op = "update" /\ ~HasId(passwords, last'.id)) =>
       /\ last'.ret = << >>
       /\ ~last'.success
       /\ ~last'.threw
       /\ ~last'.flushed
       /\ ~last'.logged
       /\ storage' = storage
       /\ passwords' = passwords]_vars

\* C7 witness: an update of an absent id has returned null while the
\* collection holds records.
C7_Witness ==
  /\ last.op = "update"
  /\ last.ret = << >>
  /\ ~HasId(passwords, last.id)
  /\ Len(passwords) > 0

\* C8: updatePassword(id, partial) with a present id applies the partial to
\* the first record with that id and to no other, flushes the whole
\* collection and returns the updated record, which keeps its id, createdAt
\* and position.
C8_UpdatePresent ==
  [][(last'.op = "update" /\ HasId(passwords, last'.id)) =>
       LET idx == FirstWithId(passwords, last'.id) IN
       /\ Len(passwords') = Len(passwords)
       /\ \A j \in 1..Len(passwords) : j # idx => passwords'[j] = passwords[j]
       /\ passwords'[idx].id = passwords[idx].id
       /\ passwords'[idx].createdAt = passwords[idx].createdAt
       /\ passwords'[idx].updatedAt = ToISOString(now)
       /\ \A k \in ContentKeys :
            passwords'[idx][k] =
              IF Get(last'.data, k) # UNDEF THEN Get(last'.data, k)
              ELSE passwords[idx][k]
       /\ last'.ret = << passwords'[idx] >>
       /\ last'.flushed
       /\ last'.backendOk => storage' = Flushed(passwords')]_vars

\* C8 witness: a non-empty partial has been applied to the second of two
\* records.
C8_Witness ==
  /\ last.op = "update"
  /\ last.ret # << >>
  /\ last.data # NoData
  /\ Len(passwords) = 2
  /\ passwords[1].id # last.id
  /\ passwords[2] = last.ret[1]

\* C9: no call throws because of the backend: after a failed save the add,
\* update or delete is applied in memory and has its normal result, and a
\* failed or unparsable read at construction gives an empty collection.
C9_BackendErrorsContained ==
  /\ ~last.threw
  /\ (last.op = "add" /\ ~last.backendOk) =>
       /\ last.ret # << >>
       /\ passwords[Len(passwords)] = last.ret[1]
  /\ (last.op = "update" /\ last.flushed /\ ~last.backendOk) =>
       /\ last.ret # << >>
       /\ HasId(passwords, last.id)
       /\ passwords[FirstWithId(passwords, last.id)] = last.ret[1]
       /\ last.ret[1].updatedAt = ToISOString(now)
       /\ \A k \in ContentKeys :
            Get(last.data, k) # UNDEF => last.ret[1][k] = Get(last.data, k)
  /\ (last.op = "delete" /\ last.flushed /\ ~last.backendOk) =>
       /\ last.success
       /\ ~HasId(passwords, last.id)
  /\ (last.op = "construct" /\ (~last.backendOk \/ storage.kind = "corrupt")) =>
       /\ instance
       /\ passwords = << >>

\* C9 witness: a delete whose save failed has returned true; the durable
\* copy still holds the deleted record.
C9_Witness ==
  /\ last.op = "delete"
  /\ last.flushed
  /\ ~last.backendOk
  /\ last.success
  /\ storage.kind = "json"
  /\ Len(storage.data) > Len(passwords)

\* C10 as stated: what the caller of an addPassword whose flush failed sees
\* differs from what the same call would have shown had the flush succeeded.
C10_FlushFailureObservable ==
  [][(last'.op = "add" /\ ~last'.backendOk) =>
       \A tId, tC, tU \in Times :
         AddPasswordOp(passwords, storage, last'.data, tId, tC, tU, FALSE).passwords
             = passwords'
         => CallerView(last') #
              CallerView(AddPasswordOp(passwords, storage, last'.data,
                                       tId, tC, tU, TRUE))]_vars

\* C10 amended: a failed flush of addPassword is logged by the backend and
\* nothing more: the call does not throw and returns the new record exactly
\* as the same call does when the flush succeeds.
C10_FlushFailureOnlyLogged ==
  [][(last'.op = "add" /\ ~last'.backendOk) =>
       /\ last'.logged
       /\ \A tId, tC, tU \in Times :
            AddPasswordOp(passwords, storage, last'.data, tId, tC, tU, FALSE).passwords
                = passwords'
            => CallerView(last') =
                 CallerView(AddPasswordOp(passwords, storage, last'.data,
                                          tId, tC, tU, TRUE))]_vars

\* C10 witness: an add whose flush failed has returned its record, and the
\* durable copy lacks it.
C10_Witness ==
  /\ last.op = "add"
  /\ ~last.backendOk
  /\ last.logged
  /\ last.ret # << >>
  /\ Len(DurableCopy(storage)) < Len(passwords)


\* C11: mutating the array returned by getAllPasswords() (pushing, removing
\* or reordering elements) never changes the collection: a following
\* getAllPasswords() returns the same records in the same order as before
C11_ReturnedArrayIsACopy ==
  [][ last'.op = "mutateArray"
        => GetAllPasswords(passwords') = GetAllPasswords(passwords) ]_vars

\* the caller has reversed an array of two different records that
\* getAllPasswords() returned, and the collection still has the old order
C11_Witness ==
  /\ last.op = "mutateArray"
  /\ last.mutation = "reverse"
  /\ Len(passwords) = 2
  /\ passwords[1] # passwords[2]
  /\ last.ret = Reverse(passwords)

\* C12: changing a field of a record object returned by addPassword,
\* getPasswordById, getAllPasswords or searchPasswords does not change the
\* corresponding record of the in-memory collection
C12_NoHandleLeaks ==
  [][ last'.op = "mutateRecord" => passwords' = passwords ]_vars

\* a term that is empty or consists of white space only
Blank(term) == \A i \in 1..Len(term) : term[i] \in WhiteSpace

\* C13: searchPasswords("") and searchPasswords of any whitespace-only term
\* return exactly the same sequence of records as getAllPasswords()
C13_BlankSearchIsGetAll ==
  last.op = "search" /\ Blank(last.term)
    => last.ret = GetAllPasswordsResult(passwords).elems

\* a whitespace-only term of two characters was searched for in a collection
\* of two records, and both came back
C13_Witness ==
  /\ last.op = "search"
  /\ last.term = <<"\t", " ">>
  /\ Len(passwords) = 2
  /\ last.ret = passwords

\* two characters that are equal up to the case of a letter
SameLetter(a, b) ==
  \/ a = b
  \/ \E k \in 1..26 : {a, b} = {LowercaseChars[k], UppercaseChars[k]}

\* s contains t as a case-insensitive substring
ContainsIgnoringCase(s, t) ==
  \E off \in 0..(Len(s) - Len(t)) :
    \A k \in 1..Len(t) : SameLetter(s[off + k], t[k])

\* C14: for a term that is not empty or whitespace-only, searchPasswords
\* returns exactly the records whose website or username contains the term
\* as a case-insensitive substring, in the collection's order, and it does
\* not modify the collection
C14_SearchMatchesWebsiteOrUsername ==
  [][ last'.op = "search" /\ ~Blank(last'.term)
        => /\ passwords' = passwords
           /\ storage' = storage
           /\ last'.ret = SelectSeq(passwords, LAMBDA p :
                            \/ ContainsIgnoringCase(p.website, last'.term)
                            \/ ContainsIgnoringCase(p.username, last'.term)) ]_vars

\* an upper-case term was searched for in a collection of two records and
\* only the record whose website has it in another case came back
C14_Witness ==
  /\ last.op = "search"
  /\ last.term = <<"G", "I">>
  /\ Len(passwords) = 2
  /\ Len(last.ret) = 1
  /\ last.ret[1].website = <<"G", "i">>

\* C15: after clearAllPasswords() the in-memory collection is empty
\* (getAllPasswords() returns an empty sequence and every getPasswordById
\* returns null) and, when the backend clear succeeds, the durable copy is
\* erased so that a subsequent load returns an empty sequence
C15_ClearAll ==
  last.op = "clear"
    => /\ GetAllPasswords(passwords) = << >>
       /\ \A id \in IdArgs : GetPasswordById(passwords, id) = << >>
       /\ last.backendOk => GetPasswords(storage, TRUE, << >>).ret = << >>

\* a collection whose record had been saved was cleared, the backend clear
\* succeeded, and the item is gone
C15_Witness ==
  /\ last.op = "clear"
  /\ last.backendOk
  /\ storage = NoItem
  /\ passwords = << >>
  /\ calls >= 3

\* every field of a record but updatedAt
KeptByEmptyUpdate == {"id", "website", "username", "password", "notes", "createdAt"}

\* C16: PasswordEntry.update({}) with an empty partial leaves id, website,
\* username, password, notes and createdAt unchanged and sets updatedAt to
\* the current time, so that updatedAt after the call is >= updatedAt before
C16_EmptyUpdate ==
  [][ (last'.op = "update" /\ last'.data = NoData /\ HasId(passwords, last'.id)) =>
        LET idx == FirstWithId(passwords, last'.id) IN
        /\ \A k \in KeptByEmptyUpdate : passwords'[idx][k] = passwords[idx][k]
        /\ passwords'[idx].updatedAt = ToISOString(now')
        /\ IsoLeq(passwords[idx].updatedAt, passwords'[idx].updatedAt) ]_vars

\* an empty partial was applied to a record with notes, later than the
\* record was made: only updatedAt moved
C16_Witness ==
  /\ last.op = "update"
  /\ last.data = NoData
  /\ last.ret # << >>
  /\ last.ret[1].notes = <<"n">>
  /\ last.ret[1].createdAt = ToISOString(0)
  /\ last.ret[1].updatedAt = ToISOString(1)

\* C17 as stated: update(partial) overwrites exactly the fields among
\* website, username, password, notes whose key is present in the partial
\* and leaves every field whose key is absent untouched
C17_PresentKeysOverwrite ==
  [][ (last'.op = "update" /\ HasId(passwords, last'.id)) =>
        LET idx == FirstWithId(passwords, last'.id) IN
        \A k \in ContentKeys :
          passwords'[idx][k] =
            IF k \in DOMAIN last'.data THEN last'.data[k] ELSE passwords[idx][k] ]_vars

\* C17 amended: update(partial) overwrites exactly the fields whose value in
\* the partial is not undefined (an empty string overwrites) and leaves
\* untouched every field whose key is absent or whose value is undefined
C17_DefinedValuesOverwrite ==
  [][ (last'.op = "update" /\ HasId(passwords, last'.id)) =>
        LET idx == FirstWithId(passwords, last'.id) IN
        \A k \in ContentKeys :
          passwords'[idx][k] =
            IF k \in DOMAIN last'.data /\ last'.data[k] # UNDEF
              THEN last'.data[k]
              ELSE passwords[idx][k] ]_vars

\* the partial { website: '', notes: undefined } was applied to a record
\* with notes: the website is now empty and the notes are still there
C17_Witness ==
  /\ last.op = "update"
  /\ last.data = [website |-> << >>, notes |-> UNDEF]
  /\ last.ret # << >>
  /\ last.ret[1].website = << >>
  /\ last.ret[1].notes = <<"n">>
  /\ last.ret[1].username = <<"u">>

\* the number of the four character classes that occur in a password
ClassesIn(password) ==
  LET chars == Range(password)
      alnum == Range(LowercaseChars) \cup Range(UppercaseChars) \cup Range(NumberChars)
  IN  Cardinality({ c \in { Range(LowercaseChars), Range(UppercaseChars),
                            Range(NumberChars), chars \ alnum } :
                      chars \cap c # {} })

\* C18: calculateStrength returns exactly min(100, L + C + U) where L = 20 if
\* length >= 8, plus 10 if length >= 12, plus 10 if length >= 16; C = 15 for
\* each class present among lowercase, uppercase, digit, non-alphanumeric;
\* U = 10 if the number of distinct characters is strictly greater than 70%
\* of the length; the result is in 0..100 and the empty string scores 0
C18_ScoreFormula ==
  LET n == Len(pw)
      L == (IF n >= 8 THEN 20 ELSE 0) + (IF n >= 12 THEN 10 ELSE 0)
           + (IF n >= 16 THEN 10 ELSE 0)
      C == 15 * ClassesIn(pw)
      U == IF 10 * Cardinality(Range(pw)) > 7 * n THEN 10 ELSE 0
  IN  /\ score \in 0..100
      /\ pw = << >> => score = 0
      /\ score = Min(100, L + C + U)

\* C19 as stated: calculateStrength("password") equals 35 and
\* getStrengthLevel of that score is Fair
C19_PasswordScores35 ==
  pw = CommonPassword => score = 35 /\ GetStrengthLevel(score) = "Fair"

\* C19 amended: calculateStrength("password") equals 45 (20 for the length,
\* 15 for lowercase, 10 for 7 distinct characters out of 8) and
\* getStrengthLevel of that score is Fair
C19_PasswordScores45 ==
  pw = CommonPassword => score = 45 /\ GetStrengthLevel(score) = "Fair"

\* "password" has been scored and classified
C19_Witness ==
  /\ pw = CommonPassword
  /\ rated = score
  /\ level = "Fair"

\* C20: for every integer score in 0..100, getStrengthLevel returns exactly
\* one band: Weak iff score < 30, Fair iff 30 <= score < 60, Good iff
\* 60 <= score < 80, Strong iff score >= 80; getStrengthColor changes band
\* at the same thresholds
C20_Bands ==
  rated \in 0..100 =>
    /\ level \in {"Weak", "Fair", "Good", "Strong"}
    /\ level = "Weak" <=> rated < 30
    /\ level = "Fair" <=> (30 <= rated /\ rated < 60)
    /\ level = "Good" <=> (60 <= rated /\ rated < 80)
    /\ level = "Strong" <=> rated >= 80
    /\ color = "bg-red-500" <=> level = "Weak"
    /\ color = "bg-yellow-500" <=> level = "Fair"
    /\ color = "bg-blue-500" <=> level = "Good"
    /\ color = "bg-green-500" <=> level = "Strong"

\* the score 30, the first threshold, has been classified without a password
\* having that score
C20_Witness ==
  /\ rated = 30
  /\ score # 30
  /\ level = "Fair"
  /\ color = "bg-yellow-500"

\* the characters of a sequence are all different
NoRepeat(s) == \A i, j \in 1..Len(s) : i # j => s[i] # s[j]

\* C21: for each combination of the four flags, getCharacterSet returns
\* exactly the characters of the enabled categories, with no character of a
\* disabled category and no character repeated; when all four flags are
\* false it returns the 26-letter lowercase set
C21_CharacterSet ==
  last.op = "generate" =>
    LET none == ~(options.includeLowercase \/ options.includeUppercase
                  \/ options.includeNumbers \/ options.includeSymbols)
    IN  /\ NoRepeat(charset)
        /\ none => charset = LowercaseChars
        /\ ~none =>
             /\ Range(LowercaseChars) \subseteq Range(charset) <=> options.includeLowercase
             /\ Range(LowercaseChars) \cap Range(charset) # {} <=> options.includeLowercase
             /\ Range(UppercaseChars) \subseteq Range(charset) <=> options.includeUppercase
             /\ Range(UppercaseChars) \cap Range(charset) # {} <=> options.includeUppercase
             /\ Range(NumberChars) \subseteq Range(charset) <=> options.includeNumbers
             /\ Range(NumberChars) \cap Range(charset) # {} <=> options.includeNumbers
             /\ Range(SymbolChars) \subseteq Range(charset) <=> options.includeSymbols
             /\ Range(SymbolChars) \cap Range(charset) # {} <=> options.includeSymbols
             /\ Range(charset) \subseteq Range(LowercaseChars) \cup Range(UppercaseChars)
                                         \cup Range(NumberChars) \cup Range(SymbolChars)

\* the character set of a policy with no flag set has been built
C21_Witness ==
  /\ last.op = "generate"
  /\ options.length = 2
  /\ ~options.includeLowercase /\ ~options.includeUppercase
  /\ ~options.includeNumbers /\ ~options.includeSymbols
  /\ Len(charset) = 26
  /\ generated = <<"c", "d">>

\* C22: generatePassword returns a string of exactly options.length
\* characters, each of which is a member of getCharacterSet(options), and
\* every character of that alphabet can appear at every position (some other
\* random value at that position, the rest being equal, yields it)
C22_GeneratedFromCharacterSet ==
  last.op = "generate" =>
    /\ Len(generated) = options.length
    /\ \A i \in 1..Len(generated) : generated[i] \in Range(GetCharacterSet(options))
    /\ randoms = [ i \in 1..options.length |-> 0 ] =>
         \A i \in 1..options.length :
         \A c \in Range(GetCharacterSet(options)) :
           \E r \in 0..MaxRandom :
             GeneratePassword(options, [randoms EXCEPT ![i] = r])[i] = c

\* a password of the greatest length was generated from digits only, with
\* random values that are not below the size of the character set
C22_Witness ==
  /\ last.op = "generate"
  /\ options.length = MaxGenLen
  /\ options.includeNumbers
  /\ ~options.includeLowercase /\ ~options.includeUppercase /\ ~options.includeSymbols
  /\ randoms[1] = 19
  /\ randoms[2] = 21
  /\ generated[1] = "9"
  /\ generated[2] = "1"

\* C23 as stated: the alphabet built from a policy with all four categories
\* enabled contains exactly 94 distinct characters
C23_FullAlphabetHas94 ==
  ( /\ last.op = "generate"
    /\ options.includeLowercase /\ options.includeUppercase
    /\ options.includeNumbers /\ options.includeSymbols )
  => Cardinality(Range(charset)) = 94

\* C23 amended: the alphabet built from a policy with all four categories
\* enabled contains exactly 88 distinct characters (26 lowercase, 26
\* uppercase, 10 digits, 26 symbols)
C23_FullAlphabetHas88 ==
  ( /\ last.op = "generate"
    /\ options.includeLowercase /\ options.includeUppercase
    /\ options.includeNumbers /\ options.includeSymbols )
  => /\ Cardinality(Range(charset)) = 88
     /\ Len(charset) = 88

\* a password was generated from all four categories; the random value 88
\* wrapped around to the first character
C23_Witness ==
  /\ last.op = "generate"
  /\ options.includeLowercase /\ options.includeUppercase
  /\ options.includeNumbers /\ options.includeSymbols
  /\ options.length = 1
  /\ randoms = <<88>>
  /\ generated = <<"a">>

\* the position of the row that has the id and belongs to the user, 0 if none
OwnRow(table, session, id) ==
  IF \E i \in 1..Len(table) : table[i].id = id /\ table[i].userId = session
    THEN CHOOSE i \in 1..Len(table) : table[i].id = id /\ table[i].userId = session
    ELSE 0

\* C24: passwordAPIService.updatePassword(id, partial) for an id that exists
\* for the current user and whose server-side update succeeds returns the
\* updated record, not the not-found signal (null)
C24_ApiUpdateReturnsRecord ==
  [][ ( /\ last'.op = "apiUpdate"
        /\ last'.user # 0
        /\ OwnRow(rows, last'.user, last'.id) # 0 )
      => /\ last'.ret # << >>
         /\ last'.ret[1].id = last'.id
         /\ \A k \in ContentKeys :
              last'.ret[1][k] = rows'[OwnRow(rows, last'.user, last'.id)][k] ]_vars

\* C25: passwordAPIService.deletePassword(id) for an id that matches no
\* record of the current user signals failure (false) and leaves the stored
\* collection unchanged, and returns true only when a record was removed
C25_ApiDeleteSignalsAbsent ==
  [][ (last'.op = "apiDelete" /\ last'.user # 0)
      => /\ OwnRow(rows, last'.user, last'.id) = 0
              => ~last'.success /\ rows' = rows
         /\ last'.success => Len(rows') < Len(rows) ]_vars

\* the records of a sequence
Records(s) == { s[i] : i \in 1..Len(s) }

\* C26: for the same collection of records and the same term, the
\* service's searchPasswords returns the same set of records as the local
\* store's searchPasswords
C26_ApiSearchAsLocalSearch ==
  [][ (last'.op = "apiSearch" /\ last'.user # 0)
      => LET collection == ApiGetAllPasswords(rows, created, last'.user, now).ret
         IN  Records(last'.ret)
               = Records(SearchPasswordsOp(collection, last'.term).elems) ]_vars

\* the rows of a table that do not belong to a user, in order
RowsOfOthers(table, session) == SelectSeq(table, LAMBDA row : row.userId # session)

\* C30: for any interleaving of requests from several users, a list, update
\* or delete request only ever reads, modifies or removes rows whose userId
\* is the requester's id, a created row is always owned by the requester,
\* and a request to one of these routes that is not authenticated is
\* answered 401 without performing any storage operation
C30_ServerIsolation ==
  [][ last'.op \in {"apiGetAll", "apiSearch", "apiAdd", "apiUpdate", "apiDelete"} =>
        IF last'.user = 0
          THEN /\ last'.status = 401
               /\ last'.queries = 0
               /\ rows' = rows
               /\ created' = created
               /\ last'.ret = << >>
          ELSE /\ RowsOfOthers(rows', last'.user) = RowsOfOthers(rows, last'.user)
               /\ last'.op \in {"apiGetAll", "apiSearch"} =>
                    \A i \in 1..Len(last'.ret) :
                      \E j \in 1..Len(rows) :
                        /\ rows[j].userId = last'.user
                        /\ rows[j].id = last'.ret[i].id
               /\ last'.op = "apiAdd" =>
                    /\ Len(rows') = Len(rows) + 1
                    /\ rows'[Len(rows')].userId = last'.user
                    /\ SubSeq(rows', 1, Len(rows)) = rows ]_vars

\* user 2 asked to update, with a partial that is not empty, the row of
\* user 1 by its id: the row is as user 1 made it
C30_Witness ==
  /\ last.op = "apiUpdate"
  /\ last.user = 2
  /\ last.data = [username |-> <<"v">>, password |-> <<"q">>]
  /\ \E i \in 1..Len(rows) :
       /\ rows[i].id = last.id
       /\ rows[i].userId = 1
       /\ rows[i].username = <<"u">>

MutationApplied(before, after, call) ==
  CASE call.op = "add" ->
         /\ call.ret # << >>
         /\ after = Append(before, call.ret[1])
    [] call.op = "update" ->
         /\ call.ret # << >>
         /\ Len(after) = Len(before)
         /\ \A i \in 1..Len(before) :
              after[i] = IF i = FirstWithId(before, call.id) THEN call.ret[1]
                         ELSE before[i]
    [] call.op = "delete" ->
         after = SelectSeq(before, LAMBDA p : p.id # call.id)
    [] OTHER -> FALSE

\* C28: a mutation whose flush fails is kept in memory, which goes on serving
\* every read, and the durable copy is left as it was; the next mutation whose
\* flush succeeds makes the durable copy the serialization of the whole
\* collection, the mutations whose flush had failed included
C28_LaterFlushCatchesUp ==
  [][ (last'.op \in {"add", "update", "delete"} /\ last'.flushed) =>
        /\ MutationApplied(passwords, passwords', last')
        /\ GetAllPasswords(passwords') = passwords'
        /\ \A i \in 1..Len(passwords') :
             GetPasswordById(passwords', passwords'[i].id) # << >>
        /\ IF last'.backendOk
             THEN /\ DurableCopy(storage') = JSONStringify(Serialized(passwords'))
                  /\ ~behind'
             ELSE /\ storage' = storage
                  /\ behind' ]_vars

\* an add whose flush succeeded after the flush of an earlier add had failed
C28_Witness ==
  /\ last.op = "add"
  /\ last.flushed
  /\ last.backendOk
  /\ last.stale
  /\ ~behind
  /\ Len(passwords) = 2
  /\ storage = Flushed(passwords)

\* C29: the record addPassword returns, which no update has touched, has
\* updatedAt equal to createdAt; the record updatePassword returns has
\* updatedAt equal to the time of that call
C29_NeverUpdatedKeepsCreatedAt ==
  /\ (last.op = "add" /\ last.ret # << >>) =>
       last.ret[1].updatedAt = last.ret[1].createdAt
  /\ (last.op = "update" /\ last.ret # << >>) =>
       last.ret[1].updatedAt = ToISOString(now)

====
